---- MODULE Spec2Model ----
(***************************************************************************)
(* Model of the book statistics pipeline of review-builder:                *)
(*   src/book_analyzer.py                  EpubWordAnalyzer  ("legacy")    *)
(*   src/book_summarizer/book_analyzer.py  BookAnalyzer      ("packaged")  *)
(*                                                                         *)
(* A text (Python str) is a sequence of one-character strings.  A word     *)
(* token is a text.  A tokenized chapter is a sequence of word tokens.     *)
(* A report file is a sequence of lines, each line a record.               *)
(***************************************************************************)
EXTENDS Integers, Sequences, FiniteSets, TLC

\* ------------------------------------------------------------------ bounds
MaxChapters == 2        \* small books: at most this many chapters
MaxBookLen == 4         \* small books: at most this many characters in all
MaxBigWords == 202      \* large books: at most this many distinct words

\* ------------------------------------------------------- program constants
FreqLimit == 200        \* rows of the tabular frequency table

\* --------------------------------------------------------------- alphabet
SPACE == " "
HASH == "#"             \* stands for input the encoder rejects as malformed
Chars == {"a", "A", SPACE, HASH}
Lower == <<"a", "b", "c", "d", "e", "f", "g", "h", "i", "j", "k", "l", "m",
           "n", "o", "p", "q", "r", "s", "t", "u", "v", "w", "x", "y", "z">>
Letters == {Lower[i] : i \in 1..Len(Lower)} \cup {"A"}

\* ---------------------------------------------------------------- helpers
\* sum(s), summed half by half
RECURSIVE SumSeq(_)
SumSeq(s) ==
    IF s = <<>> THEN 0
    ELSE IF Len(s) = 1 THEN s[1]
    ELSE LET mid == Len(s) \div 2
         IN  SumSeq(SubSeq(s, 1, mid)) + SumSeq(SubSeq(s, mid + 1, Len(s)))

Reverse(s) == [i \in 1..Len(s) |-> s[Len(s) + 1 - i]]

\* sep.join(items): items is a sequence of texts.  The items are joined
\* half by half, which keeps the evaluation shallow on long sequences.
RECURSIVE StrJoin(_, _)
StrJoin(sep, items) ==
    IF items = <<>> THEN <<>>
    ELSE IF Len(items) = 1 THEN items[1]
    ELSE LET mid == Len(items) \div 2
         IN  StrJoin(sep, SubSeq(items, 1, mid)) \o sep
                \o StrJoin(sep, SubSeq(items, mid + 1, Len(items)))

\* Iterating a Python str yields its characters, each a str of length one.
CharsOf(text) == [i \in 1..Len(text) |-> <<text[i]>>]

\* ------------------------------------------------- external collaborators
\* nltk word_tokenize on this alphabet: runs of letters are words, "#" is a
\* token of its own, white space separates and is dropped.  The text is
\* tokenized half by half; a word cut by the split is glued together again.
RECURSIVE word_tokenize(_)
word_tokenize(text) ==
    IF text = <<>> THEN <<>>
    ELSE IF Len(text) = 1 THEN (IF text[1] = SPACE THEN <<>> ELSE <<text>>)
    ELSE LET mid   == Len(text) \div 2
             left  == word_tokenize(SubSeq(text, 1, mid))
             right == word_tokenize(SubSeq(text, mid + 1, Len(text)))
         IN  IF text[mid] \in Letters /\ text[mid + 1] \in Letters
             THEN SubSeq(left, 1, Len(left) - 1)
                    \o <<left[Len(left)] \o right[1]>>
                    \o SubSeq(right, 2, Len(right))
             ELSE left \o right

\* The configured pricing models, in the order the code iterates them.
Models == <<"gpt-4o-mini", "gpt-4o">>

\* Price per 1000 tokens, in micro-dollars.
Rate(model) == IF model = "gpt-4o-mini" THEN 150 ELSE 5000

\* The encoder raises on malformed input.
Malformed(text) == \E i \in 1..Len(text) : text[i] = HASH

\* len(encoding.encode(text)): "gpt-4o-mini" is modelled with one token per
\* character, "gpt-4o" with one token per word piece (a run of letters with
\* the space before it, or any other single character).
PieceStarts(text) ==
    {i \in 1..Len(text) : text[i] \notin Letters \/ i = 1 \/ text[i - 1] = HASH}

EncodeLen(text, model) ==
    IF model = "gpt-4o-mini" THEN Len(text) ELSE Cardinality(PieceStarts(text))

\* CostCalculator(model).calculate_cost(text) = tokens / 1000.0 * rate,
\* here in nano-dollars so that it stays an integer.
CostOf(text, model) == EncodeLen(text, model) * Rate(model)

\* ------------------------------------------------------ analyzer functions
\* [word_tokenize(chapter) for chapter in self.chapters]
TokenizeChapters(chs) == [i \in 1..Len(chs) |-> word_tokenize(chs[i])]

\* a slip: the total counts the chapters, not their words
word_counts_chapters(tokenized) ==
    [total    |-> Len(tokenized),
     chapters |-> [i \in 1..Len(tokenized) |-> Len(tokenized[i])]]

\* word_counts / get_word_counts
word_counts(tokenized) ==
    [total    |-> SumSeq([i \in 1..Len(tokenized) |-> Len(tokenized[i])]),
     chapters |-> [i \in 1..Len(tokenized) |-> Len(tokenized[i])]]

\* [token for tokens in tokenized_chapters for token in tokens]
RECURSIVE Flatten(_)
Flatten(tokenized) ==
    IF tokenized = <<>> THEN <<>>
    ELSE Flatten(SubSeq(tokenized, 1, Len(tokenized) - 1)) \o tokenized[Len(tokenized)]

\* Counter(all_tokens): a dict in insertion order, one entry per distinct
\* token, placed at the token's first occurrence, counting its occurrences.
\* The tokens are counted half by half: the counts of the second half are
\* added to the entries of the first, and its new tokens follow in their order.
CountOf(table, tok) ==
    IF \E k \in 1..Len(table) : table[k].word = tok
    THEN LET k == CHOOSE k \in 1..Len(table) : table[k].word = tok IN table[k].count
    ELSE 0

AddCounts(first, second) ==
    [k \in 1..Len(first) |->
        [word |-> first[k].word, count |-> first[k].count + CountOf(second, first[k].word)]]
    \o SelectSeq(second, LAMBDA e : CountOf(first, e.word) = 0)

RECURSIVE Counter(_)
Counter(tokens) ==
    IF tokens = <<>> THEN <<>>
    ELSE IF Len(tokens) = 1 THEN <<[word |-> tokens[1], count |-> 1]>>
    ELSE LET mid == Len(tokens) \div 2
         IN  AddCounts(Counter(SubSeq(tokens, 1, mid)),
                       Counter(SubSeq(tokens, mid + 1, Len(tokens))))

\* Counter.most_common(): sorted(items, key=count, reverse=True), a stable
\* merge sort.  Merging two sorted runs, an item of the first run goes behind
\* the items of the second with a greater count, an item of the second run
\* behind the items of the first whose count is not smaller.
MergeByCount(first, second) ==
    LET posFirst  == [i \in 1..Len(first) |->
                        i + Cardinality({j \in 1..Len(second) : second[j].count > first[i].count})]
        posSecond == [j \in 1..Len(second) |->
                        j + Cardinality({i \in 1..Len(first) : first[i].count >= second[j].count})]
    IN  [p \in 1..(Len(first) + Len(second)) |->
            IF \E i \in 1..Len(first) : posFirst[i] = p
            THEN first[CHOOSE i \in 1..Len(first) : posFirst[i] = p]
            ELSE second[CHOOSE j \in 1..Len(second) : posSecond[j] = p]]

RECURSIVE most_common(_)
most_common(items) ==
    IF Len(items) <= 1 THEN items
    ELSE LET mid == Len(items) \div 2
         IN  MergeByCount(most_common(SubSeq(items, 1, mid)),
                          most_common(SubSeq(items, mid + 1, Len(items))))

\* a slip: the tokens are lower-cased before they are counted
LowerCase(tok) == [i \in 1..Len(tok) |-> IF tok[i] = "A" THEN "a" ELSE tok[i]]

word_frequencies_lowercased(tokenized) ==
    LET all_tokens == Flatten(tokenized)
    IN  most_common(Counter([i \in 1..Len(all_tokens) |-> LowerCase(all_tokens[i])]))

\* a slip: sorted ascending and then reversed, which reverses the ties
word_frequencies_ties_reversed(tokenized) ==
    most_common(Reverse(Counter(Flatten(tokenized))))

\* word_frequencies / get_word_frequency
word_frequencies(tokenized) == most_common(Counter(Flatten(tokenized)))

\* a slip: the word-tokenized form of the chapter is encoded
ModelTokenCounts_tokenized(chs, model) ==
    LET rejoined == [i \in 1..Len(chs) |-> StrJoin(<<SPACE>>, word_tokenize(chs[i]))]
    IN  [total    |-> SumSeq([i \in 1..Len(chs) |-> EncodeLen(rejoined[i], model)]),
         chapters |-> [i \in 1..Len(chs) |-> EncodeLen(rejoined[i], model)]]

\* token_counts, for one model: (total_token_count, chapter_token_counts)
ModelTokenCounts(chs, model) ==
    [total    |-> SumSeq([i \in 1..Len(chs) |-> EncodeLen(chs[i], model)]),
     chapters |-> [i \in 1..Len(chs) |-> EncodeLen(chs[i], model)]]

\* token_counts: a dict keyed by model name, in the order of the models
token_counts(chs) ==
    [m \in 1..Len(Models) |->
        [model |-> Models[m], counts |-> ModelTokenCounts(chs, Models[m])]]

\* a slip: a book without chapters is rejected
token_counts_raises_empty(chs) ==
    chs = <<>> \/ \E i \in 1..Len(chs) : Malformed(chs[i])

\* token_counts raises when the encoder raises on a chapter
token_counts_raises(chs) == \E i \in 1..Len(chs) : Malformed(chs[i])

\* BookAnalyzer.calculate_cost: full_text is built from the tokenized chapters
PackagedFullText(tokenized) ==
    StrJoin(<<SPACE>>, [i \in 1..Len(tokenized) |-> StrJoin(<<SPACE>>, tokenized[i])])

\* EpubWordAnalyzer.calculate_book_cost: full_text is built from the chapters,
\* each a str, so the inner join runs over the chapter's characters
LegacyFullText(chs) ==
    StrJoin(<<SPACE>>, [i \in 1..Len(chs) |-> StrJoin(<<SPACE>>, CharsOf(chs[i]))])

\* ------------------------------------------------------------ report lines
\* cols holds the columns a line gets from a join over a list: the model of
\* each "<model> Tokens" column of a table header, the dashes of each column
\* of its separator.
Line(kind, text, word, num, value, tokens, cols) ==
    [kind |-> kind, text |-> text, word |-> word, num |-> num, value |-> value,
     tokens |-> tokens, cols |-> cols]

BlankLine == Line("blank", "", <<>>, 0, 0, <<>>, <<>>)
TextLine(text) == Line("text", text, <<>>, 0, 0, <<>>, <<>>)
TotalLine(total) == Line("total", "Total Word Count", <<>>, 0, total, <<>>, <<>>)
ChapterLine(n, count) == Line("chapter", "Chapter Word Count", <<>>, n, count, <<>>, <<>>)
ChapterRow(n, count, tokens) == Line("chapter", "", <<>>, n, count, tokens, <<>>)
CostLine(model, cost) == Line("cost", model, <<>>, 0, cost, <<>>, <<>>)
FreqLine(word, frequency) == Line("freq", "", word, 0, frequency, <<>>, <<>>)

\* models = list(token_counts.keys())
ModelKeys(tcounts) == [m \in 1..Len(tcounts) |-> tcounts[m].model]

\* "| Chapter | Words |" + " | ".join(f"{model} Tokens" for model in models) + " |"
ChapterTableHeader(models) ==
    Line("text", "| Chapter | Words |", <<>>, 0, 0, <<>>, models)

\* "|---------|-------|" + " | ".join(["--------"] * len(models)) + "|"
ChapterTableSeparator(models) ==
    Line("text", "|---------|-------|", <<>>, 0, 0, <<>>,
         [m \in 1..Len(models) |-> "--------"])

\* a slip: the chapters are numbered from 0
LegacyChapterLines_from0(counts) == [i \in 1..Len(counts) |-> ChapterLine(i - 1, counts[i])]

\* for i, count in enumerate(chapter_word_counts): "Chapter {i+1} Word Count: {count}"
LegacyChapterLines(counts) == [i \in 1..Len(counts) |-> ChapterLine(i, counts[i])]

\* for i, word_count in enumerate(chapter_word_counts): "| {i+1} | {word_count} | {tokens} |"
PackagedChapterRows(counts, tcounts) ==
    [i \in 1..Len(counts) |->
        ChapterRow(i, counts[i], [m \in 1..Len(tcounts) |-> tcounts[m].counts.chapters[i]])]

\* for word, frequency in word_frequencies.items(): "{word}: {frequency}"
LegacyFreqLines(table) == [k \in 1..Len(table) |-> FreqLine(table[k].word, table[k].count)]

\* a slip: the loop breaks at i > 200, one row late
FreqRowCount_late(table) == IF Len(table) > FreqLimit THEN FreqLimit + 1 ELSE Len(table)

\* for i, (word, frequency) in enumerate(...): if i >= 200: break
FreqRowCount(table) == IF Len(table) >= FreqLimit THEN FreqLimit ELSE Len(table)

PackagedFreqRows(table) ==
    [k \in 1..FreqRowCount(table) |-> FreqLine(table[k].word, table[k].count)]

\* ------------------------------------------------------------------ inputs
RECURSIVE TextsOfLen(_)
TextsOfLen(n) ==
    IF n = 0 THEN {<<>>}
    ELSE {Append(t, c) : t \in TextsOfLen(n - 1), c \in Chars}

TextsUpTo(n) == UNION {TextsOfLen(k) : k \in 0..n}

\* the books of exactly k chapters holding at most n characters in all
RECURSIVE BooksOf(_, _)
BooksOf(k, n) ==
    IF k = 0 THEN {<<>>}
    ELSE UNION {{<<t>> \o b : b \in BooksOf(k - 1, n - Len(t))} : t \in TextsUpTo(n)}

SmallBooks == UNION {BooksOf(k, MaxBookLen) : k \in 0..MaxChapters}

\* the k-th two-letter word
BigWord(k) == <<Lower[((k - 1) \div Len(Lower)) + 1], Lower[((k - 1) % Len(Lower)) + 1]>>

\* one chapter of the n distinct words 1..n, and a second chapter that
\* repeats the last of them when dup is set
BigBook(n, dup) ==
    <<StrJoin(<<SPACE>>, [k \in 1..n |-> BigWord(k)])>>
        \o (IF dup THEN <<BigWord(n)>> ELSE <<>>)

BigBooks == {BigBook(n, dup) : n \in (FreqLimit - 2)..MaxBigWords, dup \in BOOLEAN}

Books == SmallBooks \cup BigBooks

\* ------------------------------------------------------------------- state
VARIABLES
    variant,             \* which analyzer runs: "legacy" or "packaged"
    pc,                  \* position of the command-line run
    chapters,            \* self.chapters
    tokenized_chapters,  \* self.tokenized_chapters
    total_word_count,    \* locals of write_statistics / write_word_statistics
    chapter_word_counts,
    model_token_counts,
    frequency_table,
    fileExists,          \* the destination file exists
    fileOpen,            \* the file handle is open
    fileLines,           \* the lines of the destination file
    costIdx,             \* index of the next model of the cost loop
    cost_texts,          \* the texts calculate_cost handed to the encoder
    error,               \* the exception that ended the run, or "none"
    diagnostics,         \* number of diagnostics printed
    announced,           \* the success message was printed
    report_written,      \* the with-block of the report ran to its end
    exitCode             \* exit status of the process, -1 while it runs

vars == <<variant, pc, chapters, tokenized_chapters, total_word_count,
          chapter_word_counts, model_token_counts, frequency_table, fileExists,
          fileOpen, fileLines, costIdx, cost_texts, error, diagnostics,
          announced, report_written, exitCode>>

analyzerVars == <<chapters, tokenized_chapters>>
statVars == <<total_word_count, chapter_word_counts, model_token_counts, frequency_table>>
fileVars == <<fileExists, fileOpen, fileLines, report_written>>
costVars == <<costIdx, cost_texts>>
exitVars == <<error, diagnostics, exitCode>>

Init ==
    /\ variant \in {"legacy", "packaged"}
    /\ pc = "main"
    /\ chapters = <<>>
    /\ tokenized_chapters = <<>>
    /\ total_word_count = 0
    /\ chapter_word_counts = <<>>
    /\ model_token_counts = <<>>
    /\ frequency_table = <<>>
    /\ fileExists = FALSE
    /\ fileOpen = FALSE
    /\ fileLines = <<>>
    /\ costIdx = 1
    /\ cost_texts = <<>>
    /\ error = "none"
    /\ diagnostics = 0
    /\ announced = FALSE
    /\ report_written = FALSE
    /\ exitCode = -1

\* ------------------------------------------------------- the top level
\* a slip: the except clause prints and forgets sys.exit(1)
ExceptHandler_no_exit(exc) ==
    IF exc = "FileNotFoundError"
    THEN [printed |-> 1, exit |-> 0]
    ELSE [printed |-> 1, exit |-> 1]

\* What the end of the script does with an exception: FileNotFoundError is
\* caught (print(e); sys.exit(1)); any other exception leaves the script, the
\* interpreter prints its traceback and the process ends with status 1.
ExceptHandler(exc) ==
    IF exc = "FileNotFoundError"
    THEN [printed |-> 1, exit |-> 1]
    ELSE [printed |-> 1, exit |-> 1]

Fail(exc) ==
    /\ error' = exc
    /\ diagnostics' = diagnostics + ExceptHandler(exc).printed
    /\ exitCode' = ExceptHandler(exc).exit
    /\ pc' = "exited"

\* if len(sys.argv) != 2: print usage; sys.exit(1)
Usage ==
    /\ pc = "main"
    /\ error' = "usage"
    /\ diagnostics' = diagnostics + 1
    /\ exitCode' = 1
    /\ pc' = "exited"
    /\ UNCHANGED <<variant, analyzerVars, statVars, fileVars, costVars, announced>>

\* The constructor: extract the chapters, tokenize each of them.
Construct ==
    /\ pc = "main"
    /\ \E book \in Books :
        /\ chapters' = book
        /\ tokenized_chapters' = TokenizeChapters(book)
    /\ pc' = "constructed"
    /\ UNCHANGED <<variant, statVars, fileVars, costVars, exitVars, announced>>

\* The constructor raises: the source is missing, its chapters cannot be
\* extracted, or the tokenizer's resources are not installed.
ConstructRaises ==
    /\ pc = "main"
    /\ \E exc \in {"FileNotFoundError", "ExtractionError", "LookupError"} : Fail(exc)
    /\ UNCHANGED <<variant, analyzerVars, statVars, fileVars, costVars, announced>>

\* --------------------------------------------------- write_word_statistics
LegacyCompute ==
    /\ pc = "constructed" /\ variant = "legacy"
    /\ total_word_count' = word_counts(tokenized_chapters).total
    /\ chapter_word_counts' = word_counts(tokenized_chapters).chapters
    /\ frequency_table' = word_frequencies(tokenized_chapters)
    /\ pc' = "computed"
    /\ UNCHANGED <<variant, analyzerVars, model_token_counts, fileVars, costVars,
                   exitVars, announced>>

\* -------------------------------------------------------- write_statistics
PackagedCompute ==
    /\ pc = "constructed" /\ variant = "packaged"
    /\ ~token_counts_raises(chapters)
    /\ total_word_count' = word_counts(tokenized_chapters).total
    /\ chapter_word_counts' = word_counts(tokenized_chapters).chapters
    /\ model_token_counts' = token_counts(chapters)
    /\ frequency_table' = word_frequencies(tokenized_chapters)
    /\ pc' = "computed"
    /\ UNCHANGED <<variant, analyzerVars, fileVars, costVars, exitVars, announced>>

PackagedTokenCountsRaises ==
    /\ pc = "constructed" /\ variant = "packaged"
    /\ token_counts_raises(chapters)
    /\ Fail("EncodingError")
    /\ UNCHANGED <<variant, analyzerVars, statVars, fileVars, costVars, announced>>

\* with open(path, "w") as file: the file is created, or truncated
OpenFile ==
    /\ pc = "computed"
    /\ fileExists' = TRUE
    /\ fileOpen' = TRUE
    /\ fileLines' = <<>>
    /\ pc' = "opened"
    /\ UNCHANGED <<variant, analyzerVars, statVars, report_written, costVars,
                   exitVars, announced>>

\* the destination cannot be opened for writing
OpenRaises ==
    /\ pc = "computed"
    /\ Fail("PermissionError")
    /\ UNCHANGED <<variant, analyzerVars, statVars, fileVars, costVars, announced>>

LegacyWriteCounts ==
    /\ pc = "opened" /\ variant = "legacy"
    /\ fileLines' = fileLines
            \o <<TotalLine(total_word_count), BlankLine>>
            \o LegacyChapterLines(chapter_word_counts)
            \o <<BlankLine, TextLine("Cost Calculations for each model:")>>
    /\ pc' = "costs"
    /\ UNCHANGED <<variant, analyzerVars, statVars, fileExists, fileOpen,
                   report_written, costVars, exitVars, announced>>

PackagedWriteOverview ==
    /\ pc = "opened" /\ variant = "packaged"
    /\ fileLines' = fileLines
            \o <<TextLine("# Book Statistics"), BlankLine,
                 TextLine("## Overview"), BlankLine,
                 TotalLine(total_word_count), BlankLine,
                 TextLine("| Model | Cost |"), TextLine("|-------|------|")>>
    /\ pc' = "costs"
    /\ UNCHANGED <<variant, analyzerVars, statVars, fileExists, fileOpen,
                   report_written, costVars, exitVars, announced>>

\* One turn of the cost loop.  When the encoder raises, the with-block closes
\* the file, which keeps what was written, and the exception goes on.
CostStep(text) ==
    /\ pc = "costs"
    /\ cost_texts' = Append(cost_texts, [model |-> Models[costIdx], text |-> text])
    /\ IF Malformed(text)
       THEN /\ Fail("EncodingError")
            /\ fileOpen' = FALSE
            /\ UNCHANGED <<fileLines, costIdx>>
       ELSE /\ fileLines' = Append(fileLines,
                                   CostLine(Models[costIdx], CostOf(text, Models[costIdx])))
            /\ costIdx' = costIdx + 1
            /\ pc' = IF costIdx = Len(Models) THEN "tables" ELSE "costs"
            /\ UNCHANGED <<fileOpen, exitVars>>
    /\ UNCHANGED <<variant, analyzerVars, statVars, fileExists, report_written, announced>>

LegacyCost == variant = "legacy" /\ CostStep(LegacyFullText(chapters))

PackagedCost == variant = "packaged" /\ CostStep(PackagedFullText(tokenized_chapters))

LegacyWriteFrequencies ==
    /\ pc = "tables" /\ variant = "legacy"
    /\ fileLines' = fileLines
            \o <<BlankLine, TextLine("Word Frequencies (entire book):")>>
            \o LegacyFreqLines(frequency_table)
    /\ fileOpen' = FALSE
    /\ report_written' = TRUE
    /\ pc' = "written"
    /\ UNCHANGED <<variant, analyzerVars, statVars, fileExists, costVars, exitVars,
                   announced>>

PackagedWriteTables ==
    /\ pc = "tables" /\ variant = "packaged"
    /\ fileLines' = fileLines
            \o <<BlankLine,
                 TextLine("## Word and Token Counts per Chapter"), BlankLine,
                 ChapterTableHeader(ModelKeys(model_token_counts)),
                 ChapterTableSeparator(ModelKeys(model_token_counts))>>
            \o PackagedChapterRows(chapter_word_counts, model_token_counts)
            \o <<TextLine("## Word Frequencies (First 200 Words)"), BlankLine,
                 TextLine("| Word | Frequency |"), TextLine("|------|-----------|")>>
            \o PackagedFreqRows(frequency_table)
            \o <<BlankLine>>
    /\ fileOpen' = FALSE
    /\ report_written' = TRUE
    /\ pc' = "written"
    /\ UNCHANGED <<variant, analyzerVars, statVars, fileExists, costVars, exitVars,
                   announced>>

\* print("Word statistics extracted and saved to ..."); the script ends
Finish ==
    /\ pc = "written"
    /\ announced' = TRUE
    /\ exitCode' = 0
    /\ pc' = "exited"
    /\ UNCHANGED <<variant, analyzerVars, statVars, fileVars, costVars, error, diagnostics>>

Next ==
    \/ Usage
    \/ Construct
    \/ ConstructRaises
    \/ LegacyCompute
    \/ PackagedCompute
    \/ PackagedTokenCountsRaises
    \/ OpenFile
    \/ OpenRaises
    \/ LegacyWriteCounts
    \/ PackagedWriteOverview
    \/ LegacyCost
    \/ PackagedCost
    \/ LegacyWriteFrequencies
    \/ PackagedWriteTables
    \/ Finish

Spec == Init /\ [][Next]_vars

\* ================================================================== claims
AllTokens == Flatten(tokenized_chapters)
DistinctWords == {AllTokens[i] : i \in 1..Len(AllTokens)}
LinesOfKind(kind) == SelectSeq(fileLines, LAMBDA l : l.kind = kind)
Min(a, b) == IF a <= b THEN a ELSE b

\* C1 (as claimed): when the run has ended, a destination file exists only if
\* the complete report was written; a failed run leaves no file behind.
C1_AllOrNothing == pc = "exited" => (fileExists => report_written)

\* C2 (as claimed): every text calculate_cost hands to the encoder is the raw
\* chapter texts joined in chapter order by single spaces.
C2_RawFullText ==
    \A k \in 1..Len(cost_texts) : cost_texts[k].text = StrJoin(<<SPACE>>, chapters)

\* C3: the run ends with exit code 0 exactly when the report was written, and
\* on every fatal error it has printed one diagnostic and ends with code 1.
C3_ExitCode ==
    pc = "exited" =>
        /\ exitCode \in {0, 1}
        /\ exitCode = 0 <=> report_written
        /\ error # "none" => exitCode = 1 /\ diagnostics = 1
        /\ error = "none" => exitCode = 0 /\ diagnostics = 0

C3_Witness == pc = "exited" /\ error = "PermissionError" /\ exitCode = 1

\* C4: word_counts returns one count per chapter, in chapter order, each the
\* number of word tokens of its chapter, and a total that is their sum.
C4_WordCounts ==
    pc = "computed" =>
        /\ Len(chapter_word_counts) = Len(chapters)
        /\ \A i \in 1..Len(chapters) :
              chapter_word_counts[i] = Len(tokenized_chapters[i])
        /\ total_word_count = SumSeq(chapter_word_counts)

C4_Witness ==
    /\ pc = "computed"
    /\ Len(chapters) = 2
    /\ chapter_word_counts[1] = 2
    /\ chapter_word_counts[2] = 1

\* C5: the counts of the frequency table sum to the total word count, and its
\* keys are exactly the distinct word tokens of the book, as tokenized.
C5_FrequencySum ==
    pc = "computed" =>
        /\ SumSeq([k \in 1..Len(frequency_table) |-> frequency_table[k].count])
              = total_word_count
        /\ {frequency_table[k].word : k \in 1..Len(frequency_table)} = DistinctWords
        /\ Len(frequency_table) = Cardinality(DistinctWords)

C5_Witness ==
    /\ pc = "computed"
    /\ \E k \in 1..Len(frequency_table) : frequency_table[k].word = <<"a">>
    /\ \E k \in 1..Len(frequency_table) : frequency_table[k].word = <<"A">>

\* C6: the frequency table is in descending order of count, and of two tokens
\* with the same count the one that occurs first in the flattened stream of
\* tokens comes first.  (first[k] is the first occurrence of the k-th word; it
\* is concatenated with <<>> so that it is evaluated once, as a tuple.)
C6_StableOrder ==
    pc = "computed" =>
        LET first == [k \in 1..Len(frequency_table) |->
                        LET at == {i \in 1..Len(AllTokens) :
                                      AllTokens[i] = frequency_table[k].word}
                        IN  CHOOSE i \in at : \A j \in at : i <= j] \o <<>>
        IN  \A k, l \in 1..Len(frequency_table) :
                k < l =>
                    /\ frequency_table[k].count >= frequency_table[l].count
                    /\ frequency_table[k].count = frequency_table[l].count
                          => first[k] < first[l]

\* a tie between two tokens, behind a token that the sort moved to the front
C6_Witness ==
    /\ pc = "computed"
    /\ Len(frequency_table) = 3
    /\ frequency_table[1].count = 2
    /\ frequency_table[1].word # AllTokens[1]
    /\ frequency_table[2].count = frequency_table[3].count

\* C7: for a book without chapters the total is 0, the per-chapter counts and
\* the frequency table are empty, every cost is 0, no computation raises, and
\* unless the destination cannot be opened the run writes a report that has a
\* cost line for every model and neither chapter rows nor frequency rows.
C7_EmptyBook ==
    (pc \notin {"main", "constructed"} /\ chapters = <<>>
        /\ error \notin {"usage", "FileNotFoundError", "ExtractionError", "LookupError"}) =>
        /\ total_word_count = 0
        /\ chapter_word_counts = <<>>
        /\ frequency_table = <<>>
        /\ error \in {"none", "PermissionError"}
        /\ \A k \in 1..Len(fileLines) : fileLines[k].kind = "cost" => fileLines[k].value = 0
        /\ (pc = "exited" /\ error = "none") =>
              /\ report_written /\ fileExists /\ exitCode = 0
              /\ Len(LinesOfKind("cost")) = Len(Models)
              /\ LinesOfKind("chapter") = <<>>
              /\ LinesOfKind("freq") = <<>>

C7_Witness ==
    /\ variant = "packaged"
    /\ pc = "exited"
    /\ tokenized_chapters = <<>>
    /\ report_written
    /\ Len(LinesOfKind("cost")) = Len(Models)

\* C8: token_counts has one entry per configured model, under the model's
\* name; its per-chapter counts are, chapter by chapter, the number of tokens
\* the model's encoder yields for the raw chapter text, and its total is
\* their sum.
C8_TokenCounts ==
    (pc = "computed" /\ variant = "packaged") =>
        /\ Len(model_token_counts) = Len(Models)
        /\ \A m \in 1..Len(Models) :
              /\ model_token_counts[m].model = Models[m]
              /\ Len(model_token_counts[m].counts.chapters) = Len(chapters)
              /\ \A i \in 1..Len(chapters) :
                    model_token_counts[m].counts.chapters[i]
                        = EncodeLen(chapters[i], Models[m])
              /\ model_token_counts[m].counts.total
                    = SumSeq(model_token_counts[m].counts.chapters)

\* two chapters, one of which the encoder counts differently once tokenized
C8_Witness ==
    /\ pc = "computed" /\ variant = "packaged"
    /\ Len(chapters) = 2
    /\ \E i \in 1..2 : \E m \in 1..Len(Models) :
          EncodeLen(chapters[i], Models[m])
              # EncodeLen(StrJoin(<<SPACE>>, tokenized_chapters[i]), Models[m])

\* C9 (as claimed): the plain-text report holds the total line, a blank line,
\* the chapter lines, a blank line, the cost lines, a blank line and the
\* frequency lines, with nothing else between them.
C9_LayoutAsClaimed ==
    (pc = "written" /\ variant = "legacy") =>
        [k \in 1..Len(fileLines) |-> fileLines[k].kind]
            = <<"total", "blank">>
                \o [i \in 1..Len(chapters) |-> "chapter"]
                \o <<"blank">>
                \o [m \in 1..Len(Models) |-> "cost"]
                \o <<"blank">>
                \o [k \in 1..Cardinality(DistinctWords) |-> "freq"]

\* C9 (amended): the plain-text report holds, in this order and with nothing
\* else between them, the total line, a blank line, one chapter line per
\* chapter numbered 1..n in chapter order, a blank line, the heading of the
\* costs, one cost line per model, a blank line, the heading of the
\* frequencies, and one frequency line per distinct word in descending order
\* of frequency.
C9_Layout ==
    (pc = "written" /\ variant = "legacy") =>
        LET n == Len(chapters)
            M == Len(Models)
            D == Cardinality(DistinctWords)
        IN  /\ Len(fileLines) = n + M + D + 6
            /\ fileLines[1] = TotalLine(SumSeq([i \in 1..n |-> Len(tokenized_chapters[i])]))
            /\ fileLines[2] = BlankLine
            /\ \A i \in 1..n :
                  fileLines[2 + i] = ChapterLine(i, Len(tokenized_chapters[i]))
            /\ fileLines[n + 3] = BlankLine
            /\ fileLines[n + 4] = TextLine("Cost Calculations for each model:")
            /\ \A m \in 1..M :
                  /\ fileLines[n + 4 + m].kind = "cost"
                  /\ fileLines[n + 4 + m].text = Models[m]
            /\ fileLines[n + M + 5] = BlankLine
            /\ fileLines[n + M + 6] = TextLine("Word Frequencies (entire book):")
            /\ \A k \in 1..D :
                  /\ fileLines[n + M + 6 + k].kind = "freq"
                  /\ fileLines[n + M + 6 + k].word \in DistinctWords
                  /\ fileLines[n + M + 6 + k].value
                        = Cardinality({i \in 1..Len(AllTokens) :
                                          AllTokens[i] = fileLines[n + M + 6 + k].word})
                  /\ \A l \in 1..D :
                        k < l => /\ fileLines[n + M + 6 + k].value
                                      >= fileLines[n + M + 6 + l].value
                                 /\ fileLines[n + M + 6 + k].word
                                      # fileLines[n + M + 6 + l].word

C9_Witness ==
    /\ pc = "written" /\ variant = "legacy"
    /\ Len(chapters) = 2
    /\ Len(frequency_table) = 2
    /\ frequency_table[1].count = 2

\* C10: the frequency table of the tabular report has min(200, D) rows, D the
\* number of distinct words, and they are the first min(200, D) entries of
\* the word_frequencies table, in its order.
C10_First200 ==
    (pc = "written" /\ variant = "packaged") =>
        LET rows == LinesOfKind("freq")
            n    == Min(FreqLimit, Cardinality(DistinctWords))
        IN  /\ Len(rows) = n
            /\ \A k \in 1..n :
                  /\ rows[k].word = frequency_table[k].word
                  /\ rows[k].value = frequency_table[k].count

\* more than 200 distinct words, the most frequent of them first seen last
C10_Witness ==
    /\ pc = "written" /\ variant = "packaged"
    /\ Cardinality(DistinctWords) > FreqLimit
    /\ Len(LinesOfKind("freq")) = FreqLimit
    /\ LinesOfKind("freq")[1].value = 2

====
